---- MODULE Spec2Model ----
(***************************************************************************)
(* Kanban board of src/App.tsx: the board tree held by the App component,  *)
(* its mutation operations, the drag session, and the two effects that     *)
(* load the board from and save it to localStorage under 'trello-board'.   *)
(*                                                                         *)
(* Text is a sequence of characters, so that trim() is computed.  A Date   *)
(* is [time |-> ms]; its JSON form is the ISO text, kept as the pair       *)
(* <<seconds, milliseconds>>.  The text held by an input box when its      *)
(* handler runs is an input of the handler.                                *)
(***************************************************************************)
EXTENDS Integers, Sequences, FiniteSets, TLC

\* ----------------------------------------------------------------- bounds
MaxCards == 2       \* cards created while the board holds fewer than this
MaxLists == 4       \* lists created while the board holds fewer than this
ClockStart == 1999  \* first reading of Date.now() (milliseconds)
MaxTicks == 1       \* the clock advances at most this many milliseconds
MaxOps == 3         \* user events (operations, drags, reloads) in a behaviour

ClockEnd == ClockStart + MaxTicks
Clock == ClockStart..ClockEnd

\* ------------------------------------------------------------------- text
WhiteSpace == {" "}

Titles == { <<>>, <<" ">>, <<"a">> }

RECURSIVE trimStart(_)
trimStart(s) ==
  IF s # <<>> /\ Head(s) \in WhiteSpace THEN trimStart(Tail(s)) ELSE s

RECURSIVE trimEnd(_)
trimEnd(s) ==
  IF s # <<>> /\ s[Len(s)] \in WhiteSpace
  THEN trimEnd(SubSeq(s, 1, Len(s) - 1)) ELSE s

trim(s) == trimEnd(trimStart(s))

\* JavaScript truthiness of a string: only the empty string is falsy
Truthy(s) == s # <<>>

\* the test !text.trim() of addList, handleAddCard and saveTitle
blank(s) == ~Truthy(trim(s))

\* ------------------------------------------------------------ identifiers
\* Date.now().toString()
NowToString(t) == ToString(t)

\* ids that are on no board: every id of the program is a decimal number
UnknownIds == {"none", "other"}

\* ------------------------------------------------------------------ dates
NewDate(t) == [time |-> t]
\* an ISO text that drops the milliseconds
toISOStringSeconds(d) == <<d.time \div 1000, 0>>
toISOString(d) == <<d.time \div 1000, d.time % 1000>>
\* a parse that reads the seconds of the ISO text only
NewDateFromSeconds(s) == [time |-> s[1] * 1000]
NewDateFromString(s) == [time |-> s[1] * 1000 + s[2]]

\* ------------------------------------------------------------------ board
initialBoard ==
  [id |-> "1",
   title |-> <<"M","i"," ","T","a","b","l","e","r","o"," ","d","e"," ",
               "T","r","a","b","a","j","o">>,
   lists |-> << [id |-> "1",
                 title |-> <<"P","o","r"," ","H","a","c","e","r">>,
                 cards |-> <<>>],
                [id |-> "2",
                 title |-> <<"E","n"," ","P","r","o","g","r","e","s","o">>,
                 cards |-> <<>>],
                [id |-> "3",
                 title |-> <<"C","o","m","p","l","e","t","a","d","o">>,
                 cards |-> <<>>] >>]

NotFound == [found |-> FALSE]

\* Array.prototype.find: the first element whose id is the given one
find(seq, id) ==
  LET hits == { i \in 1..Len(seq) : seq[i].id = id }
  IN  IF hits = {} THEN NotFound
      ELSE [found |-> TRUE,
            val |-> seq[CHOOSE i \in hits : \A j \in hits : i <= j]]

withoutCard(cards, cardId) == SelectSeq(cards, LAMBDA c : c.id # cardId)

\* an updater that puts the new card first in the list
addCardUpdateFirst(prev, listId, newCard) ==
  [prev EXCEPT !.lists =
     [i \in 1..Len(prev.lists) |->
        IF prev.lists[i].id = listId
        THEN [prev.lists[i] EXCEPT !.cards = <<newCard>> \o @]
        ELSE prev.lists[i]]]

\* the updater of addCard
addCardUpdate(prev, listId, newCard) ==
  [prev EXCEPT !.lists =
     [i \in 1..Len(prev.lists) |->
        IF prev.lists[i].id = listId
        THEN [prev.lists[i] EXCEPT !.cards = Append(@, newCard)]
        ELSE prev.lists[i]]]

\* the updater of deleteCard
deleteCardUpdate(prev, listId, cardId) ==
  [prev EXCEPT !.lists =
     [i \in 1..Len(prev.lists) |->
        IF prev.lists[i].id = listId
        THEN [prev.lists[i] EXCEPT !.cards = withoutCard(@, cardId)]
        ELSE prev.lists[i]]]

\* a lookup of the card in every list of the board
moveCardLookupAnyList(prev, cardId, sourceListId) ==
  LET hits == { i \in 1..Len(prev.lists) :
                  find(prev.lists[i].cards, cardId).found }
  IN  IF hits = {} THEN NotFound
      ELSE find(prev.lists[CHOOSE i \in hits : TRUE].cards, cardId)

\* the card moveCard's updater looks up in the source list
moveCardLookup(prev, cardId, sourceListId) ==
  LET sourceList == find(prev.lists, sourceListId)
  IN  IF sourceList.found THEN find(sourceList.val.cards, cardId)
      ELSE NotFound

\* the updater of moveCard
moveCardUpdate(prev, cardId, sourceListId, targetListId) ==
  LET card == moveCardLookup(prev, cardId, sourceListId)
  IN  IF ~card.found THEN prev
      ELSE [prev EXCEPT !.lists =
              [i \in 1..Len(prev.lists) |->
                 IF prev.lists[i].id = sourceListId
                 THEN [prev.lists[i] EXCEPT !.cards = withoutCard(@, cardId)]
                 ELSE IF prev.lists[i].id = targetListId
                 THEN [prev.lists[i] EXCEPT !.cards = Append(@, card.val)]
                 ELSE prev.lists[i]]]

\* moveCard without its early return
moveCardNoEarlyReturn(prev, cardId, sourceListId, targetListId) ==
  IF ~moveCardLookup(prev, cardId, sourceListId).found
  THEN [set |-> FALSE]
  ELSE [set |-> TRUE,
        board |-> moveCardUpdate(prev, cardId, sourceListId, targetListId)]

\* moveCard as a whole: whether a new board is set, and which.  No board is
\* set on the early return, and React keeps the state when the updater
\* returns prev itself.
moveCardResult(prev, cardId, sourceListId, targetListId) ==
  IF sourceListId = targetListId THEN [set |-> FALSE]
  ELSE IF ~moveCardLookup(prev, cardId, sourceListId).found
  THEN [set |-> FALSE]
  ELSE [set |-> TRUE,
        board |-> moveCardUpdate(prev, cardId, sourceListId, targetListId)]

\* the updater of addList
addListUpdate(prev, newList) ==
  [prev EXCEPT !.lists = Append(@, newList)]

\* the updater of updateListTitle
updateListTitleUpdate(prev, listId, newTitle) ==
  [prev EXCEPT !.lists =
     [i \in 1..Len(prev.lists) |->
        IF prev.lists[i].id = listId
        THEN [prev.lists[i] EXCEPT !.title = newTitle]
        ELSE prev.lists[i]]]

\* the updater of deleteList
deleteListUpdate(prev, listId) ==
  [prev EXCEPT !.lists = SelectSeq(@, LAMBDA l : l.id # listId)]

\* ------------------------------------------------------------ persistence
\* JSON.stringify(board): every createdAt becomes its ISO text
stringifyCard(c) == [c EXCEPT !.createdAt = toISOString(@)]
stringifyList(l) ==
  [l EXCEPT !.cards = [i \in 1..Len(l.cards) |-> stringifyCard(l.cards[i])]]
stringify(b) ==
  [b EXCEPT !.lists = [i \in 1..Len(b.lists) |-> stringifyList(b.lists[i])]]

\* JSON.parse of a stored board followed by the loop reviving the dates
reviveCard(c) == [c EXCEPT !.createdAt = NewDateFromString(@)]
reviveList(l) ==
  [l EXCEPT !.cards = [i \in 1..Len(l.cards) |-> reviveCard(l.cards[i])]]
parseBoard(doc) ==
  [doc EXCEPT !.lists = [i \in 1..Len(doc.lists) |-> reviveList(doc.lists[i])]]

\* what localStorage can hold under the key before the first mount:
\* nothing, the empty text, text that is not JSON, the JSON null, an
\* object without lists, an object whose lists have no cards array
Absent == [kind |-> "absent"]
Stored(b) == [kind |-> "board", doc |-> stringify(b)]
MalformedKinds == {"empty", "garbage", "null", "nolists", "nocards"}
\* a board of the Board shape saved by an earlier session: one card with the
\* optional description and one without it
savedBoard ==
  [initialBoard EXCEPT !.lists[1].cards =
     << [id |-> "1997", title |-> <<"a">>, description |-> <<"d">>,
         createdAt |-> NewDate(1997)],
        [id |-> "1998", title |-> <<"a">>, createdAt |-> NewDate(1998)] >>]
InitialStorage ==
  {Absent, Stored(savedBoard)} \cup { [kind |-> k] : k \in MalformedKinds }

\* localStorage.getItem returns null or '' : the load effect does nothing
loadSkips(s) == s.kind \in {"absent", "empty"}
\* JSON.parse throws, or the forEach over lists / cards throws
loadThrows(s) == s.kind \in {"garbage", "null", "nolists", "nocards"}

NoBoard == [set |-> FALSE]
NoDrag == [dragging |-> FALSE]
NoReload == [from |-> "start"]

VARIABLES
  board,        \* the board state of App
  draggedCard,  \* the draggedCard state of App
  storage,      \* localStorage['trello-board']
  now,          \* the last reading of the clock
  pc,           \* "load", "save0", "render", "save", "idle" or "crashed"
  pending,      \* the board queued by setBoard in the load effect
  reloaded,     \* history: the board the last reload started from
  ops,          \* history: the number of user events so far
  last          \* history: the last operation and the case it ran in

vars ==
  <<board, draggedCard, storage, now, pc, pending, reloaded, ops, last>>

cardCount(b) ==
  LET RECURSIVE sum(_)
      sum(i) == IF i = 0 THEN 0 ELSE Len(b.lists[i].cards) + sum(i - 1)
  IN  sum(Len(b.lists))

Init ==
  /\ board = initialBoard
  /\ draggedCard = NoDrag
  /\ storage \in InitialStorage
  /\ now = ClockStart
  /\ pc = "load"
  /\ pending = NoBoard
  /\ reloaded = NoReload
  /\ ops = 0
  /\ last = [op |-> "mount"]

\* ---------------------------------------------------------------- effects
\* useEffect(..., []) : load from localStorage on mount
loadEffect ==
  /\ pc = "load"
  /\ last' = [op |-> "loadEffect"]
  /\ IF loadSkips(storage)
     THEN pc' = "save0" /\ pending' = NoBoard
     ELSE IF loadThrows(storage)
     THEN pc' = "crashed" /\ pending' = NoBoard
     ELSE pc' = "save0"
          /\ pending' = [set |-> TRUE, board |-> parseBoard(storage.doc)]
  /\ UNCHANGED <<board, draggedCard, storage, now, reloaded, ops>>

\* useEffect(..., [board]) : save to localStorage; runs on mount with the
\* board of the first render and after every render with a new board
saveEffect ==
  /\ pc \in {"save0", "save"}
  /\ storage' = Stored(board)
  /\ pc' = IF pc = "save0" /\ pending.set THEN "render" ELSE "idle"
  /\ last' = [op |-> "saveEffect"]
  /\ UNCHANGED <<board, draggedCard, now, pending, reloaded, ops>>

\* the render that applies the setBoard of the load effect
render ==
  /\ pc = "render"
  /\ board' = pending.board
  /\ pending' = NoBoard
  /\ pc' = "save"
  /\ last' = [op |-> "render"]
  /\ UNCHANGED <<draggedCard, storage, now, reloaded, ops>>

\* the page is reloaded: the component state is rebuilt, localStorage stays
reload ==
  /\ pc \in {"idle", "crashed", "render"}
  /\ ops < MaxOps
  /\ ops' = ops + 1
  /\ board' = initialBoard
  /\ draggedCard' = NoDrag
  /\ pending' = NoBoard
  /\ pc' = "load"
  /\ reloaded' = IF pc = "idle" THEN [from |-> "idle", board |-> board]
                 ELSE [from |-> pc]
  /\ last' = [op |-> "reload"]
  /\ UNCHANGED <<storage, now>>

\* a setBoard after which no save effect would run
commitWithoutSave(b) ==
  /\ ops < MaxOps
  /\ ops' = ops + 1
  /\ board' = b
  /\ pc' = "idle"
  /\ reloaded' = NoReload
  /\ UNCHANGED <<storage, pending>>

\* a setBoard from an event handler: React renders with the new board and
\* the save effect becomes due
commit(b) ==
  /\ ops < MaxOps
  /\ ops' = ops + 1
  /\ board' = b
  /\ pc' = "save"
  /\ reloaded' = NoReload
  /\ UNCHANGED <<storage, pending>>

\* a handler that returns without calling setBoard, or whose updater
\* returns prev itself: no render, no effect
noCommit ==
  /\ ops < MaxOps
  /\ ops' = ops + 1
  /\ reloaded' = NoReload
  /\ UNCHANGED <<board, pc, storage, pending>>

\* ------------------------------------------------------------- operations
\* The ids an operation is called with: those on the board and unknown ones
ListIdArgs ==
  { board.lists[i].id : i \in 1..Len(board.lists) } \cup UnknownIds
CardIdArgs ==
  UNION { { board.lists[i].cards[j].id : j \in 1..Len(board.lists[i].cards) } :
          i \in 1..Len(board.lists) } \cup {"none"}

\* Every operation leaves in `last` its name and the case it ran in.
hasList(b, listId) == find(b.lists, listId).found
hasCard(b, listId, cardId) ==
  \E i \in 1..Len(b.lists) :
    b.lists[i].id = listId /\ find(b.lists[i].cards, cardId).found

\* the card addCard builds from two readings of the clock
newCardAt(t1, t2, title) ==
  [id |-> NowToString(t1), title |-> title, createdAt |-> NewDate(t2)]

addCard(listId, title) ==
  /\ pc = "idle"
  /\ cardCount(board) < MaxCards
  /\ \E t1 \in now..ClockEnd : \E t2 \in t1..ClockEnd :
       /\ commit(addCardUpdate(board, listId, newCardAt(t1, t2, title)))
       /\ now' = t2
  /\ last' = [op |-> "addCard", known |-> hasList(board, listId),
              blank |-> blank(title)]
  /\ UNCHANGED draggedCard

\* handleAddCard of the list component: newCardTitle is the text of its box
handleAddCard(listId, newCardTitle) ==
  /\ pc = "idle"
  /\ hasList(board, listId)
  /\ IF blank(newCardTitle)
     THEN /\ noCommit
          /\ UNCHANGED now
     ELSE /\ cardCount(board) < MaxCards
          /\ \E t1 \in now..ClockEnd : \E t2 \in t1..ClockEnd :
               /\ commit(addCardUpdate(board, listId,
                                       newCardAt(t1, t2, newCardTitle)))
               /\ now' = t2
  /\ last' = [op |-> "handleAddCard", blank |-> blank(newCardTitle)]
  /\ UNCHANGED draggedCard

deleteCard(listId, cardId) ==
  /\ pc = "idle"
  /\ commit(deleteCardUpdate(board, listId, cardId))
  /\ last' = [op |-> "deleteCard", known |-> hasList(board, listId),
              hit |-> hasCard(board, listId, cardId)]
  /\ UNCHANGED <<now, draggedCard>>

\* what moveCard does to the component: nothing on its early return and
\* when the updater returns prev, a render with the new board otherwise
moveCardEffect(cardId, sourceListId, targetListId) ==
  LET result == moveCardResult(board, cardId, sourceListId, targetListId)
  IN  IF result.set THEN commit(result.board) ELSE noCommit

moveCardCase(cardId, sourceListId, targetListId) ==
  [same |-> sourceListId = targetListId,
   source |-> hasList(board, sourceListId),
   card |-> moveCardLookup(board, cardId, sourceListId).found,
   target |-> hasList(board, targetListId)]

moveCard(cardId, sourceListId, targetListId) ==
  /\ pc = "idle"
  /\ moveCardEffect(cardId, sourceListId, targetListId)
  /\ last' = [op |-> "moveCard",
              case |-> moveCardCase(cardId, sourceListId, targetListId)]
  /\ UNCHANGED <<now, draggedCard>>

\* addList: newListTitle is the text of the new-list box
addList(newListTitle) ==
  /\ pc = "idle"
  /\ IF blank(newListTitle)
     THEN /\ noCommit
          /\ UNCHANGED now
     ELSE /\ Len(board.lists) < MaxLists
          /\ \E t \in now..ClockEnd :
               /\ commit(addListUpdate(board,
                           [id |-> NowToString(t), title |-> newListTitle,
                            cards |-> <<>>]))
               /\ now' = t
  /\ last' = [op |-> "addList", blank |-> blank(newListTitle)]
  /\ UNCHANGED draggedCard

updateListTitle(listId, newTitle) ==
  /\ pc = "idle"
  /\ commit(updateListTitleUpdate(board, listId, newTitle))
  /\ last' = [op |-> "updateListTitle", known |-> hasList(board, listId),
              blank |-> blank(newTitle)]
  /\ UNCHANGED <<now, draggedCard>>

\* saveTitle of the list component: editingListTitle is the text of the
\* title editor of the list being edited
saveTitle(listId, editingListTitle) ==
  /\ pc = "idle"
  /\ hasList(board, listId)
  /\ IF ~blank(editingListTitle)
     THEN commit(updateListTitleUpdate(board, listId, editingListTitle))
     ELSE noCommit
  /\ last' = [op |-> "saveTitle", blank |-> blank(editingListTitle)]
  /\ UNCHANGED <<now, draggedCard>>

deleteList(listId) ==
  /\ pc = "idle"
  /\ commit(deleteListUpdate(board, listId))
  /\ last' = [op |-> "deleteList", known |-> hasList(board, listId)]
  /\ UNCHANGED <<now, draggedCard>>

\* ----------------------------------------------------------- drag session
\* the j-th card rendered in the i-th list starts being dragged
handleDragStart(i, j) ==
  /\ pc = "idle"
  /\ i \in 1..Len(board.lists)
  /\ j \in 1..Len(board.lists[i].cards)
  /\ draggedCard' = [dragging |-> TRUE, card |-> board.lists[i].cards[j],
                     sourceListId |-> board.lists[i].id]
  /\ noCommit
  /\ last' = [op |-> "handleDragStart", replaced |-> draggedCard.dragging]
  /\ UNCHANGED now

\* the drag ends without a drop on a list (released elsewhere, Escape): the
\* card element has onDragStart only, so no handler of App runs
dragEnd ==
  /\ pc = "idle"
  /\ draggedCard.dragging
  /\ noCommit
  /\ last' = [op |-> "dragEnd"]
  /\ UNCHANGED <<draggedCard, now>>

\* a drop handler that moves the card and keeps the drag session
handleDropKeepsSession(targetListId) ==
  /\ pc = "idle"
  /\ hasList(board, targetListId)
  /\ IF draggedCard.dragging
     THEN /\ moveCardEffect(draggedCard.card.id, draggedCard.sourceListId,
                            targetListId)
          /\ UNCHANGED draggedCard
          /\ last' = [op |-> "handleDrop", dragging |-> TRUE,
                      case |-> moveCardCase(draggedCard.card.id,
                                 draggedCard.sourceListId, targetListId)]
     ELSE /\ noCommit
          /\ UNCHANGED draggedCard
          /\ last' = [op |-> "handleDrop", dragging |-> FALSE]
  /\ UNCHANGED now

\* a drop event on a list rendered from the board
handleDrop(targetListId) ==
  /\ pc = "idle"
  /\ hasList(board, targetListId)
  /\ IF draggedCard.dragging
     THEN /\ moveCardEffect(draggedCard.card.id, draggedCard.sourceListId,
                            targetListId)
          /\ draggedCard' = NoDrag
          /\ last' = [op |-> "handleDrop", dragging |-> TRUE,
                      case |-> moveCardCase(draggedCard.card.id,
                                 draggedCard.sourceListId, targetListId)]
     ELSE /\ noCommit
          /\ UNCHANGED draggedCard
          /\ last' = [op |-> "handleDrop", dragging |-> FALSE]
  /\ UNCHANGED now

Next ==
  \/ loadEffect
  \/ saveEffect
  \/ render
  \/ reload
  \/ \E listId \in ListIdArgs, title \in Titles : addCard(listId, title)
  \/ \E listId \in ListIdArgs, title \in Titles : handleAddCard(listId, title)
  \/ \E listId \in ListIdArgs, cardId \in CardIdArgs :
       deleteCard(listId, cardId)
  \/ \E cardId \in CardIdArgs, s \in ListIdArgs, t \in ListIdArgs :
       moveCard(cardId, s, t)
  \/ \E title \in Titles : addList(title)
  \/ \E listId \in ListIdArgs, title \in Titles :
       updateListTitle(listId, title)
  \/ \E listId \in ListIdArgs, title \in Titles : saveTitle(listId, title)
  \/ \E listId \in ListIdArgs : deleteList(listId)
  \/ \E i \in 1..MaxLists, j \in 1..(MaxCards * MaxLists) :
       handleDragStart(i, j)
  \/ dragEnd
  \/ \E listId \in ListIdArgs : handleDrop(listId)

Spec == Init /\ [][Next]_vars

\* React runs the effects of a committed render before it handles the next
\* event: a due effect is not postponed for ever
EffectsRun == WF_vars(loadEffect) /\ WF_vars(saveEffect) /\ WF_vars(render)
LiveSpec == Spec /\ EffectsRun
\* ----------------------------------------------------------------- claims
allCards(b) ==
  { b.lists[i].cards[j] : <<i, j>> \in
      { <<i, j>> \in (1..Len(b.lists)) \X (1..(MaxCards * (MaxLists + MaxOps))) :
          j <= Len(b.lists[i].cards) } }

holders(b, card) ==
  { i \in 1..Len(b.lists) :
      \E j \in 1..Len(b.lists[i].cards) : b.lists[i].cards[j] = card }

contains(cards, card) == \E j \in 1..Len(cards) : cards[j] = card

\* C1: every card on the board is held by exactly one list; no board state
\* shows a card in two lists.
C1_CardInExactlyOneList ==
  \A card \in allCards(board) : Cardinality(holders(board, card)) = 1

\* C2: for every card C of a list S and every other list T of the board,
\* moveCard(C.id, S.id, T.id) leaves S without C and T equal to its prior
\* card sequence followed by C.
C2_MoveAppendsToTarget ==
  [][last'.op = "moveCard" =>
     \A i \in 1..Len(board.lists), k \in 1..Len(board.lists) :
       \A j \in 1..Len(board.lists[i].cards) :
         LET C == board.lists[i].cards[j]
         IN  (i # k /\ moveCard(C.id, board.lists[i].id, board.lists[k].id))
             => /\ ~contains(board'.lists[i].cards, C)
                /\ board'.lists[k].cards = Append(board.lists[k].cards, C)]_vars

\* C3: no two cards on the board have the same identifier.
C3_CardIdsUnique ==
  \A i \in 1..Len(board.lists), k \in 1..Len(board.lists) :
    \A j \in 1..Len(board.lists[i].cards), l \in 1..Len(board.lists[k].cards) :
      board.lists[i].cards[j].id = board.lists[k].cards[l].id
      => (i = k /\ j = l)

\* the sequence without its i-th element
removeAt(seq, i) == SubSeq(seq, 1, i - 1) \o SubSeq(seq, i + 1, Len(seq))

\* C4: deleteList(L.id) yields the board without L, with the other lists in
\* their order and with their card sequences, and no card that was in L is
\* in any list of the result.
C4_DeleteListRemovesItsCards ==
  [][last'.op = "deleteList" =>
     \A i \in 1..Len(board.lists) :
       deleteList(board.lists[i].id)
       => /\ board'.lists = removeAt(board.lists, i)
          /\ \A j \in 1..Len(board.lists[i].cards) :
               holders(board', board.lists[i].cards[j]) = {}]_vars

\* C5: a reload from a board whose save effects have run ends, once the
\* mount-time effects have run, with that board in memory and in the store.
C5_ReloadRestoresBoard ==
  (pc = "idle" /\ reloaded.from = "idle")
  => (board = reloaded.board /\ storage = Stored(board))

C5_Witness ==
  pc = "idle" /\ reloaded.from = "idle" /\ cardCount(board) > 0

\* C6: with a malformed snapshot in the store the load is discarded and the
\* application runs with the default board.
C6_MalformedFallsBack ==
  (last.op = "loadEffect" /\ storage.kind \in MalformedKinds)
  => (pc # "crashed" /\ board = initialBoard /\ ~pending.set)

\* a text that is empty or made of whitespace only
isBlankText(s) == \A i \in 1..Len(s) : s[i] \in WhiteSpace

\* C7: addCard with a blank title leaves the board unchanged, called
\* directly or through handleAddCard.
C7_BlankTitleAddsNothing ==
  [][last'.op \in {"addCard", "handleAddCard"} =>
     \A listId \in ListIdArgs, title \in Titles :
       (isBlankText(title)
        /\ (addCard(listId, title) \/ handleAddCard(listId, title)))
       => board' = board]_vars

\* the board is its former self with the title of the lists of the given id
\* replaced
retitled(old, new, listId, newTitle) ==
  /\ new.id = old.id /\ new.title = old.title
  /\ Len(new.lists) = Len(old.lists)
  /\ \A i \in 1..Len(old.lists) :
       new.lists[i] = IF old.lists[i].id = listId
                      THEN [id |-> old.lists[i].id, title |-> newTitle,
                            cards |-> old.lists[i].cards]
                      ELSE old.lists[i]

\* C8: updateListTitle with a blank title leaves the board unchanged, called
\* directly or through saveTitle; with another title it replaces the title
\* of the list with that id and changes nothing else.
C8_BlankTitleKeepsTitle ==
  [][last'.op \in {"updateListTitle", "saveTitle"} =>
     \A listId \in ListIdArgs, title \in Titles :
       (updateListTitle(listId, title) \/ saveTitle(listId, title))
       => IF isBlankText(title) THEN board' = board
          ELSE retitled(board, board', listId, title)]_vars

\* C9: moveCard with the source list as its target leaves the board
\* unchanged, whatever the ids are; so does a drop of the dragged card on
\* the list it was dragged from.
C9_MoveToSameListIsNoOp ==
  [][/\ last'.op = "moveCard" =>
        \A cardId \in CardIdArgs, listId \in ListIdArgs :
          moveCard(cardId, listId, listId) => board' = board
     /\ last'.op = "handleDrop" =>
        \A listId \in ListIdArgs :
          (draggedCard.dragging /\ draggedCard.sourceListId = listId
           /\ handleDrop(listId))
          => board' = board]_vars

C9_Witness ==
  /\ last.op = "handleDrop" /\ last.dragging
  /\ last.case.same /\ last.case.card

\* C10: an operation given an id that is not on the board leaves the board
\* as it was.
C10_UnknownIdsAreNoOps ==
  [][/\ last'.op \in {"addCard", "updateListTitle"} =>
        \A listId \in ListIdArgs, title \in Titles :
          (~hasList(board, listId)
           /\ (addCard(listId, title) \/ updateListTitle(listId, title)))
          => board' = board
     /\ last'.op = "deleteCard" =>
        \A listId \in ListIdArgs, cardId \in CardIdArgs :
          (~hasCard(board, listId, cardId) /\ deleteCard(listId, cardId))
          => board' = board
     /\ last'.op = "deleteList" =>
        \A listId \in ListIdArgs :
          (~hasList(board, listId) /\ deleteList(listId)) => board' = board
     /\ last'.op = "moveCard" =>
        \A cardId \in CardIdArgs, s \in ListIdArgs, t \in ListIdArgs :
          (~hasCard(board, s, cardId) /\ moveCard(cardId, s, t))
          => board' = board]_vars

C10_Witness ==
  /\ last.op = "moveCard" /\ ~last.case.same /\ last.case.source
  /\ ~last.case.card /\ last.case.target /\ cardCount(board) > 0

\* the cards of the given id taken out of the lists of the given id
cardsTakenOut(old, new, listId, cardId) ==
  /\ new.id = old.id /\ new.title = old.title
  /\ Len(new.lists) = Len(old.lists)
  /\ \A i \in 1..Len(old.lists) :
       new.lists[i] =
         IF old.lists[i].id = listId
         THEN [id |-> old.lists[i].id, title |-> old.lists[i].title,
               cards |-> SelectSeq(old.lists[i].cards,
                                   LAMBDA c : c.id # cardId)]
         ELSE old.lists[i]

onNoList(b, card) == holders(b, card) = {}

\* C11: moveCard of a card of an existing list S to a target that matches no
\* list yields the prior board with that card deleted from S, and the card
\* is on no list.
C11_MoveToUnknownTargetDeletes ==
  [][last'.op = "moveCard" =>
     \A i \in 1..Len(board.lists), t \in UnknownIds :
       \A j \in 1..Len(board.lists[i].cards) :
         LET C == board.lists[i].cards[j]
         IN  moveCard(C.id, board.lists[i].id, t)
             => /\ cardsTakenOut(board, board', board.lists[i].id, C.id)
                /\ onNoList(board', C)]_vars

\* the steps of the operations, as opposed to the effects and the reload
OperationNames ==
  {"addCard", "handleAddCard", "deleteCard", "moveCard", "addList",
   "updateListTitle", "saveTitle", "deleteList", "handleDragStart",
   "handleDrop"}

\* C12: every operation that sets a new board makes the save effect due, the
\* save effect is the next thing to run and it writes the whole board as the
\* operation left it, the due save does run, and whenever nothing is due the
\* store holds the serialization of the current board.
C12_SaveFollowsEveryMutation ==
  /\ [](pc = "idle" => storage = Stored(board))
  /\ [][(last'.op \in OperationNames /\ board' # board) => pc' = "save"]_vars
  /\ [][pc = "save" => /\ last'.op = "saveEffect"
                       /\ board' = board
                       /\ storage' = Stored(board)
                       /\ pc' = "idle"]_vars
  /\ (pc = "save") ~> (pc = "idle" /\ storage = Stored(board))

C12_Witness ==
  /\ pc = "idle" /\ last.op = "saveEffect" /\ ops > 0
  /\ reloaded = NoReload
  /\ board # initialBoard /\ storage = Stored(board)

hasDescription(c) == "description" \in DOMAIN c

\* C13: saving a board and loading it gives the same board field for field,
\* with and without descriptions, every createdAt the same instant to the
\* millisecond and a date again; so does loading what the store holds.
C13_SaveLoadRoundTrip ==
  /\ parseBoard(stringify(board)) = board
  /\ (pc = "idle" => parseBoard(storage.doc) = board)
  /\ (last.op = "loadEffect" /\ pending.set
      => stringify(pending.board) = storage.doc)

C13_Witness ==
  /\ pc = "idle" /\ last.op = "saveEffect" /\ reloaded.from = "idle"
  /\ \E c \in allCards(board) : hasDescription(c) /\ c.createdAt.time % 1000 # 0
  /\ \E c \in allCards(board) : ~hasDescription(c)

\* C14: a drag that is started and then cancelled leaves the session Idle
\* and the board as it was, and a drop that comes after it moves no card.
C14_CancelledDragIsForgotten ==
  [][/\ last'.op = "dragEnd" => (draggedCard' = NoDrag /\ board' = board)
     /\ (last.op = "dragEnd" /\ last'.op = "handleDrop") => board' = board]_vars

\* C15: a drop while Dragging applies moveCard once, with the card id and the
\* source list id recorded at drag start and the list dropped on, and leaves
\* the session Idle; a drop while Idle changes neither board nor session; a
\* drag start while Dragging replaces the recorded card and source list.
C15_DropMovesOnceAndResets ==
  [][/\ last'.op = "handleDrop" =>
        \A t \in ListIdArgs :
          handleDrop(t) =>
            IF draggedCard.dragging
            THEN /\ LET r == moveCardResult(board, draggedCard.card.id,
                                            draggedCard.sourceListId, t)
                    IN  board' = IF r.set THEN r.board ELSE board
                 /\ draggedCard' = NoDrag
            ELSE board' = board /\ draggedCard' = draggedCard
     /\ last'.op = "handleDragStart" =>
        \A i \in 1..Len(board.lists) :
          \A j \in 1..Len(board.lists[i].cards) :
            handleDragStart(i, j) =>
              /\ board' = board
              /\ draggedCard' = [dragging |-> TRUE,
                                 card |-> board.lists[i].cards[j],
                                 sourceListId |-> board.lists[i].id]]_vars

C15_Witness ==
  /\ last.op = "handleDrop" /\ last.dragging
  /\ last.case.card /\ last.case.target /\ ~last.case.same
  /\ draggedCard = NoDrag
  /\ board # initialBoard /\ board # savedBoard

\* a is b with some elements left out, the others in the order of b
RECURSIVE isSubseq(_, _)
isSubseq(a, b) ==
  IF a = <<>> THEN TRUE
  ELSE IF b = <<>> THEN FALSE
  ELSE IF Head(a) = Head(b) THEN isSubseq(Tail(a), Tail(b))
  ELSE isSubseq(a, Tail(b))

onlyLoses(old, new) == isSubseq(new, old)
entersLast(old, new) ==
  /\ Len(new) = Len(old) + 1
  /\ SubSeq(new, 1, Len(old)) = old

\* C16: every operation keeps the cards that stay in a list in the order they
\* had, and a card that enters a list by addCard or moveCard is put last;
\* addList and deleteList keep the other lists, and their cards, in order.
C16_CardOrderKept ==
  [][last'.op \in OperationNames =>
       IF Len(board'.lists) = Len(board.lists)
       THEN \A i \in 1..Len(board.lists) :
              /\ board'.lists[i].id = board.lists[i].id
              /\ \/ onlyLoses(board.lists[i].cards, board'.lists[i].cards)
                 \/ /\ last'.op \in {"addCard", "handleAddCard", "moveCard",
                                     "handleDrop"}
                    /\ entersLast(board.lists[i].cards, board'.lists[i].cards)
       ELSE IF Len(board'.lists) > Len(board.lists)
       THEN /\ last'.op = "addList"
            /\ SubSeq(board'.lists, 1, Len(board.lists)) = board.lists
       ELSE /\ last'.op = "deleteList"
            /\ isSubseq(board'.lists, board.lists)]_vars

C16_Witness ==
  /\ last.op = "moveCard"
  /\ last.case.card /\ last.case.target /\ ~last.case.same
  /\ \E i \in 1..Len(board.lists) : Len(board.lists[i].cards) = 2

\* C17: no two lists of the board have the same id, whatever addList and
\* deleteList calls were made and whatever the clock read.
C17_ListIdsUnique ==
  \A i \in 1..Len(board.lists), j \in 1..Len(board.lists) :
    i # j => board.lists[i].id # board.lists[j].id

\* C18: deleteCard(S, c) for a card c of list S takes that card out of S and
\* changes no other list and no other card of S; applied a second time with
\* the same arguments it changes nothing more.
C18_DeleteCardRemovesOnlyThatCard ==
  [][last'.op = "deleteCard" =>
     \A i \in 1..Len(board.lists) :
       \A j \in 1..Len(board.lists[i].cards) :
         deleteCard(board.lists[i].id, board.lists[i].cards[j].id)
         => /\ board' = [board EXCEPT !.lists[i].cards = removeAt(@, j)]
            /\ deleteCardUpdate(board', board.lists[i].id,
                                board.lists[i].cards[j].id) = board']_vars

\* C19: moveCard to a target list that exists, called directly or by a drop,
\* leaves the number of cards on the board as it was; of the other
\* operations only addCard makes the number larger and only deleteCard and
\* deleteList make it smaller.
C19_MoveConservesCardCount ==
  [][/\ last'.op = "moveCard" =>
        \A cardId \in CardIdArgs, s \in ListIdArgs, t \in ListIdArgs :
          (hasList(board, t) /\ moveCard(cardId, s, t))
          => cardCount(board') = cardCount(board)
     /\ last'.op = "handleDrop" => cardCount(board') = cardCount(board)
     /\ last'.op \in (OperationNames \ {"moveCard", "handleDrop"}) =>
        /\ cardCount(board') > cardCount(board)
           => last'.op \in {"addCard", "handleAddCard"}
        /\ cardCount(board') < cardCount(board)
           => last'.op \in {"deleteCard", "deleteList"}]_vars

\* C20: while the app mounts over a saved board, the load effect writes
\* nothing and every write of the save effect is the serialization of that
\* saved board: the first one, made before the loaded board is rendered,
\* and the one after that render.
C20_MountKeepsSavedSnapshot ==
  [][/\ last'.op = "loadEffect" => storage' = storage
     /\ last'.op = "saveEffect" =>
        /\ (pc = "save0" /\ pending.set) => storage' = Stored(pending.board)
        /\ last.op = "render" => storage' = Stored(board)]_vars

====
